---- MODULE Spec2Model ----
(***************************************************************************)
(* FitChef Pro (src/Calorie_Recipe_App.py): the hydration ledger, the      *)
(* shopping list, the cheat budget and the per-user spreadsheet store.     *)
(*                                                                         *)
(* Six specifications share the variables:                                 *)
(*   SpecStreak  calculate_streak on bounded logs                          *)
(*   SpecDate    get_effective_date as the clock advances hour by hour     *)
(*   SpecStore   save_data_to_cloud / fetch_user_data, one call at a time  *)
(*   SpecConc    two sessions running save_data_to_cloud step by step      *)
(*   Spec        one session: login, Dashboard, Fuel tab, Cheat Negotiator *)
(*   SpecPlan    one logged-in session: the Plan tab's handlers            *)
(*                                                                         *)
(* Calendar dates are day numbers (strftime("%Y-%m-%d") of a date and      *)
(* strptime of the result are inverse on valid dates, and timedelta(days=1)*)
(* is -1 on the day number); a clock time is its hour.  A date/time string *)
(* that strptime rejects and an amount that float() rejects are marked in  *)
(* the entry's field bad.                                                  *)
(***************************************************************************)
EXTENDS Integers, Sequences, FiniteSets, TLC

VARIABLES
    secrets,  \* the deployment: what st.secrets and the spreadsheet API offer
    ws,       \* the spreadsheet "FitChef DB": worksheet name -> its rows
    saved,    \* history: per user and key, the data of the last completed save
    pcs,      \* per session: where its save_data_to_cloud call stands, its locals
    sess,     \* st.session_state of one browser session: current_user, app_data
    view,     \* what the session's last script run rendered on the Plan tab
    ev,       \* history: the button the session's last script run handled
    arg,      \* inputs of the function under evaluation (SpecStreak)
    ret       \* the result of the last evaluation or fetch

vars == <<secrets, ws, saved, pcs, sess, view, ev, arg, ret>>
appVars == <<sess, view, ev>>
storeVars == <<secrets, ws, saved, pcs>>

\* ------------------------------------------------------------------ bounds
NumDays == 3        \* log entries carry the dates 1..NumDays
MaxLogLen == 3      \* longest hydration log drawn

\* ----------------------------------------------------------- safe helpers
\* safe_float(val): float(val), 0.0 when float() raises.
safe_float(val) == IF val.num THEN val.v ELSE 0

Num(n) == [num |-> TRUE, v |-> n]
NotANumber == [num |-> FALSE, v |-> 0]

\* A call's outcome: a value, or an exception on its way up.
Ok(v) == [exc |-> FALSE, val |-> v]
Raise(v) == [exc |-> TRUE, val |-> v]

\* dict.get(k, default)
DictGet(d, k, default) == IF k \in DOMAIN d THEN d[k] ELSE default

\* d[k] = v on a dict
DictPut(d, k, v) == [x \in (DOMAIN d) \cup {k} |-> IF x = k THEN v ELSE d[x]]

EmptyDict == [x \in {} |-> 0]

\* ------------------------------------------------------------ TimeCycle
\* the roll-back also taken at the start hour itself
get_effective_date_upto(log_dt, start_hour) ==
    IF log_dt.hour <= start_hour THEN log_dt.day - 1 ELSE log_dt.day

\* get_effective_date(log_dt, start_hour)
get_effective_date(log_dt, start_hour) ==
    IF log_dt.hour < start_hour THEN log_dt.day - 1 ELSE log_dt.day

\* ----------------------------------------------------- calculate_streak
\* The grouping loop: entries whose date/time does not parse are skipped by
\* the except/continue; a non-numeric amount counts as safe_float's 0.0.
RECURSIVE DailyTotals(_, _, _)
DailyTotals(logs, start_hour, acc) ==
    IF logs = <<>> THEN acc
    ELSE LET l == Head(logs)
         IN IF l.bad = "date"
            THEN DailyTotals(Tail(logs), start_hour, acc)
            ELSE LET eff_date == get_effective_date([day |-> l.date, hour |-> l.time],
                                                    start_hour)
                 IN DailyTotals(Tail(logs), start_hour,
                        DictPut(acc, eff_date,
                                DictGet(acc, eff_date, 0) + safe_float(l.amount)))

\* date.min, the first date a datetime.date can hold, lies DaysToDateMin days
\* before day 0; timedelta arithmetic that leaves the range raises
\* OverflowError.
DaysToDateMin == 2
DateMin == 0 - DaysToDateMin

RECURSIVE StreakWalkStrict(_, _, _, _)
StreakWalkStrict(daily_totals, goal, check_date, streak) ==
    IF DictGet(daily_totals, check_date, 0) > goal
    THEN IF check_date = DateMin THEN Raise(streak + 1)
         ELSE StreakWalkStrict(daily_totals, goal, check_date - 1, streak + 1)
    ELSE Ok(streak)

\* The while True loop, from check_date backward; check_date -= timedelta(days=1)
\* raises at date.min.
RECURSIVE StreakWalk(_, _, _, _)
StreakWalk(daily_totals, goal, check_date, streak) ==
    IF DictGet(daily_totals, check_date, 0) >= goal
    THEN IF check_date = DateMin THEN Raise(streak + 1)
         ELSE StreakWalk(daily_totals, goal, check_date - 1, streak + 1)
    ELSE Ok(streak)

calculate_streak_from_today(logs, goal, start_hour, now) ==
    IF logs = <<>> THEN Ok(0)
    ELSE LET daily_totals == DailyTotals(logs, start_hour, EmptyDict)
             eff_today == get_effective_date(now, start_hour)
         IN StreakWalk(daily_totals, goal, eff_today, 0)

\* calculate_streak(logs, goal, start_hour), with datetime.now() as now: the
\* count returned, or the exception that leaves the function.
calculate_streak(logs, goal, start_hour, now) ==
    IF logs = <<>> THEN Ok(0)
    ELSE LET daily_totals == DailyTotals(logs, start_hour, EmptyDict)
             eff_today == get_effective_date(now, start_hour)
             check_date == eff_today - 1
             streak0 == IF DictGet(daily_totals, eff_today, 0) >= goal THEN 1 ELSE 0
         IN StreakWalk(daily_totals, goal, check_date, streak0)


\* ------------------------------------------------------- the user store
Users == {"A", "B", "C"}
Keys == {"hydration", "cheats", "shopping"}

\* Strings that the code searches or changes the case of are sequences of
\* characters; the others are atoms.
Str_username == "username"
Str_item == <<"i", "t", "e", "m">>
Str_qty == <<"q", "t", "y">>
Str_category == "category"
Str_bought == "bought"

\* str.lower() on the cell texts of the bought column
LowerText(t) == IF t = "TRUE" THEN "true" ELSE IF t = "FALSE" THEN "false" ELSE t

\* default_data of fetch_user_data
DefaultHydration ==
    [logs |-> <<>>, daily_goal |-> 3000, weight |-> 70, activity |-> "Moderate",
     start_hour |-> 0]
DefaultCheats == [used_this_week |-> 0, weekly_limit |-> 3]
default_data == [hydration |-> DefaultHydration, shopping |-> <<>>, cheats |-> DefaultCheats]

\* A config_json cell: the text json.dumps wrote, an empty cell, or text that
\* json.loads rejects.  json.loads(json.dumps(d)) = d for the dicts, lists,
\* strings, numbers and booleans these records are made of.
json_dumps(d) == [kind |-> "json", val |-> d]
EmptyCell(d) == [kind |-> "empty", val |-> d]
Garbage(d) == [kind |-> "garbage", val |-> d]

json_loads(cell) == IF cell.kind = "json" THEN Ok(cell.val) ELSE Raise(cell.val)

\* try: x  except: default
TryOr(x, default) == IF x.exc THEN default ELSE x.val

\* The header rows that save_data_to_cloud appends.
ConfigHeader(d) == [username |-> Str_username, config_json |-> Garbage(d)]
ShoppingHeader ==
    [username |-> Str_username, item |-> Str_item, qty |-> Str_qty,
     category |-> Str_category, price_min |-> [num |-> FALSE, v |-> 0],
     price_max |-> [num |-> FALSE, v |-> 0], bought |-> Str_bought]

DefaultOf(key) == IF key = "hydration" THEN DefaultHydration ELSE DefaultCheats
HeaderOf(key) == IF key = "shopping" THEN ShoppingHeader ELSE ConfigHeader(DefaultOf(key))
SheetName(key) ==
    IF key = "hydration" THEN "Hydration" ELSE IF key = "cheats" THEN "Cheats" ELSE "Shopping"

EmptySpreadsheet == [n \in {SheetName(k) : k \in Keys} |-> <<>>]

\* get_db_connection(): MockSheet when the secrets hold no service account or
\* the credentials fail, None when the spreadsheet cannot be opened.
get_db_connection ==
    IF secrets = "missing" THEN "mock"
    ELSE IF secrets = "bad_creds" THEN "mock"
    ELSE IF secrets = "no_db" THEN "none"
    ELSE "sheet"

\* ws.get_all_records(): the first row gives the keys, the others the records;
\* MockWorksheet returns [].  keyed tells whether the keys are the column names
\* (r['username'] exists).
get_all_records(sh, rows) ==
    IF sh = "mock" \/ rows = <<>> THEN [keyed |-> TRUE, recs |-> <<>>]
    ELSE [keyed |-> rows[1].username = Str_username, recs |-> Tail(rows)]

\* ws.clear(), ws.append_row(row), ws.append_rows(rows): no-ops on MockWorksheet
ws_clear(sh, rows) == IF sh = "mock" THEN rows ELSE <<>>
ws_append_row(sh, rows, row) == IF sh = "mock" THEN rows ELSE Append(rows, row)
ws_append_rows(sh, rows, more) == IF sh = "mock" THEN rows ELSE rows \o more

\* str(r.get('username')): "None" when the record has no such key
UsernameOf(all, r) == IF all.keyed THEN r.username ELSE "None"

\* next((r for r in all_recs if str(r.get('username')) == username), None)
FirstOf(all, username) ==
    LET mine == SelectSeq(all.recs, LAMBDA r : UsernameOf(all, r) = username)
    IN IF mine = <<>> THEN [found |-> FALSE, row |-> HeaderOf("hydration")]
       ELSE [found |-> TRUE, row |-> Head(mine)]

\* The API faults of one call: per worksheet "ok", "no_worksheet" (sh.worksheet
\* raises) or "read_error" (get_all_records raises).
Faults == {"ok", "no_worksheet", "read_error"}

\* The HYDRATION and CHEATS blocks of fetch_user_data, before their except.
FetchConfigUncaught(sh, key, username, fault) ==
    IF fault # "ok" THEN Raise(DefaultOf(key))
    ELSE LET all_recs == get_all_records(sh, ws[SheetName(key)])
             user_row == FirstOf(all_recs, username)
         IN IF user_row.found /\ all_recs.keyed /\ user_row.row.config_json.kind # "empty"
            THEN json_loads(user_row.row.config_json)
            ELSE Ok(DefaultOf(key))

FetchConfig(sh, key, username, fault) ==
    Ok(TryOr(FetchConfigUncaught(sh, key, username, fault), DefaultOf(key)))

\* x['bought'] = str(x['bought']).lower() == 'true'
LoadItemCaseSensitive(x) == [x EXCEPT !.bought = (x.bought = "true")]

LoadItem(x) == [x EXCEPT !.bought = (LowerText(x.bought) = "true")]

SeqMap(Op(_), s) == [i \in DOMAIN s |-> Op(s[i])]

FetchShoppingAll(sh, username, fault) ==
    IF fault # "ok" THEN Ok(<<>>)
    ELSE Ok(SeqMap(LoadItem, get_all_records(sh, ws[SheetName("shopping")]).recs))

\* The SHOPPING block of fetch_user_data.
FetchShopping(sh, username, fault) ==
    IF fault # "ok" THEN Ok(<<>>)
    ELSE LET all_shop == get_all_records(sh, ws[SheetName("shopping")])
             user_shop == SelectSeq(all_shop.recs,
                                    LAMBDA x : UsernameOf(all_shop, x) = username)
         IN Ok(SeqMap(LoadItem, user_shop))

\* fetch_user_data(username); faults gives the API's behaviour during the call.
fetch_user_data(username, faults) ==
    LET sh == get_db_connection
    IN IF sh = "none" THEN Ok(default_data)
       ELSE LET hydration_data == FetchConfig(sh, "hydration", username, faults.hydration)
                shopping_list == FetchShopping(sh, username, faults.shopping)
                cheat_data == FetchConfig(sh, "cheats", username, faults.cheats)
            IN IF hydration_data.exc \/ shopping_list.exc \/ cheat_data.exc
               THEN Ok(default_data)
               ELSE Ok([hydration |-> hydration_data.val,
                        shopping |-> shopping_list.val,
                        cheats |-> cheat_data.val])

\* a save that keeps nobody else's rows
OthersDropped(all_rows, username) == <<>>

\* The rows of the other users, as save_data_to_cloud copies them:
\* r['username'] raises KeyError when the records are not keyed by column name.
Others(all_rows, username) ==
    SelectSeq(all_rows.recs, LAMBDA r : UsernameOf(all_rows, r) # username)

\* x.get("category", "General")
CategoryOf(x) == IF "category" \in DOMAIN x THEN x.category ELSE "General"

\* A Python bool as the sheet shows it
BoughtCell(b) == IF b THEN "TRUE" ELSE "FALSE"

\* my_rows.append({...}) of the shopping branch
MyShoppingRow(username, x) ==
    [username |-> username, item |-> x.item, qty |-> x.qty, category |-> CategoryOf(x),
     price_min |-> Num(safe_float(x.price_min)),
     price_max |-> Num(safe_float(x.price_max)), bought |-> BoughtCell(x.bought)]

\* final_data / export_rows: the others' rows, then mine.
FinalRows(key, new_data, username, all_rows) ==
    LET others == Others(all_rows, username)
        mine == IF key = "shopping"
                THEN [i \in DOMAIN new_data |-> MyShoppingRow(username, new_data[i])]
                ELSE <<[username |-> username, config_json |-> json_dumps(new_data)]>>
    IN IF others # <<>> /\ ~all_rows.keyed THEN Raise(<<>>) ELSE Ok(others \o mine)

\* ws.clear(); ws.append_row(header); ws.append_rows(final) -- the shopping
\* branch appends the rows only when there are some.
Rewrite(sh, key, rows, final) ==
    LET cleared == ws_clear(sh, rows)
        headed == ws_append_row(sh, cleared, HeaderOf(key))
    IN IF key = "shopping" /\ final = <<>> THEN headed
       ELSE ws_append_rows(sh, headed, final)

\* save_data_to_cloud(key, new_data, username): the worksheet's rows after the
\* call, and whether st.warning("Cloud Save Error") was shown.
save_data_to_cloud(key, new_data, username, fault) ==
    LET sh == get_db_connection
        rows == ws[SheetName(key)]
    IN IF sh = "none" THEN [rows |-> rows, warned |-> FALSE]
       ELSE IF fault # "ok" THEN [rows |-> rows, warned |-> TRUE]
       ELSE LET final == FinalRows(key, new_data, username, get_all_records(sh, rows))
            IN IF final.exc THEN [rows |-> rows, warned |-> TRUE]
               ELSE [rows |-> Rewrite(sh, key, rows, final.val), warned |-> FALSE]

\* The history variables before any call.
Sessions == {"s1", "s2"}
Idle == [pc |-> "idle", key |-> "", final |-> <<>>, data |-> <<>>, rounds |-> 0, warned |-> FALSE]
NoCalls == [s \in Sessions |-> Idle]

\* st.session_state before the first script run: no current_user, no app_data
\* key.  app.state is "absent" (no key), "none" (the key holds None) or
\* "loaded".
\* owner is history: the username app_data was fetched for.  judge is the
\* session's 'judge' key, set once a verdict was asked for.
NoAppData(state) == [state |-> state, data |-> default_data, owner |-> ""]
LoggedOut == [current_user |-> "", app |-> NoAppData("absent"), judge |-> FALSE]
NoView == [shown |-> FALSE, est_total_x2 |-> 0, metric |-> 0, rendered |-> <<>>]
NoEvent == [op |-> "none", val |-> 0, updates |-> <<>>, raised |-> "",
            now |-> [day |-> 0, hour |-> 0]]
Unsaved(key) ==
    [set |-> FALSE, val |-> IF key = "shopping" THEN <<>> ELSE DefaultOf(key)]
NothingSaved ==
    [u \in Users |-> [hydration |-> Unsaved("hydration"), cheats |-> Unsaved("cheats"),
                      shopping |-> Unsaved("shopping")]]

\* ------------------------------------------------------------- SpecStreak
Hours == {3, 12}
StartHours == {0, 6}
Goals == {2000, 3000}
Amounts == {1000, 2000}

Entry(d, h, a, b) ==
    [date |-> d, time |-> h,
     amount |-> IF b = "amount" THEN NotANumber ELSE Num(a), bad |-> b]

CleanEntries == {Entry(d, h, a, "none") : d \in 1..NumDays, h \in Hours, a \in Amounts}
BadEntries == {Entry(d, h, 2000, b) : d \in 1..NumDays, h \in Hours, b \in {"date", "amount"}}

\* Entries are appended with the clock's date and time: a log is in time order.
Before(e, f) == e.date < f.date \/ (e.date = f.date /\ e.time <= f.time)

\* The logs of at most n entries of S, in time order.
RECURSIVE LogsUpTo(_, _)
LogsUpTo(S, n) ==
    IF n = 0 THEN {<<>>}
    ELSE LET shorter == LogsUpTo(S, n - 1)
             longest == {t \in shorter : Len(t) = n - 1}
         IN shorter \cup
            UNION {{Append(s, e) : e \in {f \in S : s = <<>> \/ Before(s[Len(s)], f)}} :
                   s \in longest}

Nows == {[day |-> d, hour |-> h] : d \in 1..(NumDays + 3), h \in Hours}

\* Well-formed logs up to MaxLogLen, and logs of at most two entries that may
\* hold malformed ones.
StreakLogs ==
    LogsUpTo(CleanEntries, MaxLogLen) \cup LogsUpTo(CleanEntries \cup BadEntries, 2)

StreakArgs ==
    {[logs |-> l, goal |-> g, start_hour |-> sh, now |-> n] :
        l \in StreakLogs, g \in Goals, sh \in StartHours, n \in Nows}

NoRet == [done |-> FALSE, value |-> 0]

InitStreak ==
    /\ arg \in StreakArgs
    /\ ret = NoRet
    /\ secrets = "missing"
    /\ ws = EmptySpreadsheet
    /\ saved = NothingSaved
    /\ pcs = NoCalls
    /\ sess = LoggedOut /\ view = NoView /\ ev = NoEvent

CallCalculateStreak ==
    /\ ~ret.done
    /\ LET r == calculate_streak(arg.logs, arg.goal, arg.start_hour, arg.now)
       IN ret' = [done |-> TRUE, value |-> r.val, raised |-> r.exc]
    /\ UNCHANGED <<arg, storeVars, appVars>>

NextStreak == CallCalculateStreak

SpecStreak == InitStreak /\ [][NextStreak]_vars

\* --------------------------------------------------------------- SpecDate
\* get_effective_date along a clock that advances hour by hour.
LastDay == 3
ClockHours == 0..23

DateArgs ==
    {[log_dt |-> [day |-> d, hour |-> h], start_hour |-> H] :
        d \in 1..LastDay, h \in ClockHours, H \in ClockHours}

InitDate ==
    /\ arg \in DateArgs
    /\ ret = NoRet
    /\ secrets = "missing"
    /\ ws = EmptySpreadsheet
    /\ saved = NothingSaved
    /\ pcs = NoCalls
    /\ sess = LoggedOut /\ view = NoView /\ ev = NoEvent

CallGetEffectiveDate ==
    /\ ~ret.done
    /\ ret' = [done |-> TRUE, value |-> get_effective_date(arg.log_dt, arg.start_hour)]
    /\ UNCHANGED <<arg, storeVars, appVars>>

\* the timestamp one hour later
HourLater(dt) ==
    IF dt.hour = 23 THEN [day |-> dt.day + 1, hour |-> 0]
    ELSE [day |-> dt.day, hour |-> dt.hour + 1]

\* The clock advances by an hour and the date is taken again.
AdvanceHour ==
    /\ ret.done
    /\ arg.log_dt.day <= LastDay
    /\ arg' = [arg EXCEPT !.log_dt = HourLater(@)]
    /\ ret' = [done |-> TRUE, value |-> get_effective_date(arg'.log_dt, arg.start_hour)]
    /\ UNCHANGED <<storeVars, appVars>>

NextDate == CallGetEffectiveDate \/ AdvanceHour

SpecDate == InitDate /\ [][NextDate]_vars

\* C11: for every start hour H in 0..23 the effective date of a timestamp is
\* its own date when its hour is >= H and the previous date otherwise; as the
\* clock advances the effective date never goes backward and changes only when
\* the hour becomes H, by exactly one day; with H = 0 it is always the own
\* date, with H = 23 it is the previous date for every hour except 23.
C11_EffectiveDateMonotonic ==
    /\ [](ret.done =>
            /\ ret.value = IF arg.log_dt.hour >= arg.start_hour
                           THEN arg.log_dt.day ELSE arg.log_dt.day - 1
            /\ arg.start_hour = 0 => ret.value = arg.log_dt.day
            /\ arg.start_hour = 23 =>
                  (ret.value = arg.log_dt.day - 1) = (arg.log_dt.hour # 23))
    /\ [][(ret.done /\ ret'.done) =>
            /\ ret'.value >= ret.value
            /\ ret'.value # ret.value =>
                  /\ arg'.log_dt.hour = arg.start_hour
                  /\ ret'.value = ret.value + 1]_vars

C11_Witness ==
    /\ ret.done
    /\ arg.start_hour = 0 /\ arg.log_dt = [day |-> LastDay + 1, hour |-> 0]
    /\ ret.value = LastDay + 1


\* -------------------------------------------------------------- SpecStore
Item(name, qty, cat, pmin, pmax, b) ==
    [item |-> name, qty |-> qty, category |-> cat, price_min |-> pmin,
     price_max |-> pmax, bought |-> b]

ItemChicken == Item(<<"c", "h">>, <<"2", " ", "k", "g">>, "Protein", Num(10), Num(20), FALSE)
ItemRice == Item(<<"r">>, <<"k", "g">>, "General", NotANumber, Num(0), TRUE)

HydrationChoices ==
    {[logs |-> <<Entry(1, 12, 1000, "none")>>, daily_goal |-> 2000, weight |-> 80,
      activity |-> "High", start_hour |-> 6],
     [logs |-> <<>>, daily_goal |-> 3000, weight |-> 70, activity |-> "Sedentary",
      start_hour |-> 0]}
CheatChoices == {[used_this_week |-> 4, weekly_limit |-> 3]}

ShoppingChoices == {<<>>, <<ItemChicken>>, <<ItemRice, ItemChicken>>}

DataChoices(key) ==
    IF key = "hydration" THEN HydrationChoices
    ELSE IF key = "cheats" THEN CheatChoices
    ELSE ShoppingChoices

\* The spreadsheets a deployment starts from: brand-new worksheets; the rows
\* of user C; and those plus rows whose config_json cannot be used.
OldHydration == [logs |-> <<Entry(2, 3, 2000, "none")>>, daily_goal |-> 2500, weight |-> 60,
                 activity |-> "Moderate", start_hour |-> 0]
OldCheats == [used_this_week |-> 2, weekly_limit |-> 3]

RowsOfC ==
    [n \in DOMAIN EmptySpreadsheet |->
        IF n = "Hydration"
        THEN <<HeaderOf("hydration"), [username |-> "C", config_json |-> json_dumps(OldHydration)]>>
        ELSE IF n = "Cheats"
        THEN <<HeaderOf("cheats"), [username |-> "C", config_json |-> json_dumps(OldCheats)]>>
        ELSE <<ShoppingHeader, MyShoppingRow("C", ItemRice), MyShoppingRow("C", ItemChicken)>>]

RowsOfCAndUnusable ==
    [RowsOfC EXCEPT
        !["Hydration"] = Append(@, [username |-> "B", config_json |-> Garbage(DefaultHydration)]),
        !["Cheats"] = Append(@, [username |-> "A", config_json |-> EmptyCell(DefaultCheats)])]

InitialSpreadsheets == {EmptySpreadsheet, RowsOfC, RowsOfCAndUnusable}

Deployments == {"ok", "missing", "bad_creds", "no_db"}

NoStreakArg == [logs |-> <<>>, goal |-> 0, start_hour |-> 0, now |-> [day |-> 0, hour |-> 0]]

InitStore ==
    /\ secrets \in Deployments
    /\ ws \in (IF secrets = "ok" THEN InitialSpreadsheets ELSE {EmptySpreadsheet})
    /\ saved = NothingSaved
    /\ pcs = NoCalls
    /\ sess = LoggedOut /\ view = NoView /\ ev = NoEvent
    /\ arg = NoStreakArg
    /\ ret = NoRet

Savers == {"A", "B"}

\* One call of save_data_to_cloud, from start to return.
Save(username, key, new_data, fault) ==
    LET out == save_data_to_cloud(key, new_data, username, fault)
    IN /\ ws' = [ws EXCEPT ![SheetName(key)] = out.rows]
       /\ saved' = IF out.warned THEN saved
                   ELSE [saved EXCEPT ![username][key] = [set |-> TRUE, val |-> new_data]]
       /\ ret' = NoRet
       /\ UNCHANGED <<secrets, pcs, arg, appVars>>

\* One call of fetch_user_data.
Fetch(username, faults) ==
    /\ ret' = [done |-> TRUE, value |-> fetch_user_data(username, faults), user |-> username]
    /\ UNCHANGED <<secrets, ws, saved, pcs, arg, appVars>>

\* During one fetch at most one worksheet is out of reach.
FaultSets ==
    {f \in [hydration : Faults, shopping : Faults, cheats : Faults] :
        Cardinality({k \in Keys : f[k] # "ok"}) <= 1}

NextStore ==
    \/ \E u \in Savers, key \in Keys, fault \in Faults :
          \E d \in DataChoices(key) : Save(u, key, d, fault)
    \/ \E u \in Users, faults \in FaultSets : Fetch(u, faults)

SpecStore == InitStore /\ [][NextStore]_vars


\* ------------------------------------------------- the store, as specified

NoFaults == [hydration |-> "ok", shopping |-> "ok", cheats |-> "ok"]

\* The data rows of a worksheet: all rows but the first, the header.
DataRows(key) == IF ws[SheetName(key)] = <<>> THEN <<>> ELSE Tail(ws[SheetName(key)])

\* The rows of one user in a worksheet, in order.
RowsOfUser(key, u) == SelectSeq(DataRows(key), LAMBDA r : r.username = u)

\* A price as the store keeps it: the number, 0 for a value that is no number.
KeptPrice(p) == IF p.num THEN p ELSE Num(0)

\* A stored shopping row holds the saved item.
RowHoldsItem(r, x) ==
    /\ r.item = x.item /\ r.qty = x.qty /\ r.category = x.category
    /\ r.price_min = KeptPrice(x.price_min) /\ r.price_max = KeptPrice(x.price_max)
    /\ (r.bought = "TRUE") = x.bought

RowsHoldSave(key, u) ==
    LET rows == RowsOfUser(key, u)
        data == saved[u][key].val
    IN IF key = "shopping"
       THEN /\ Len(rows) = Len(data)
            /\ \A i \in DOMAIN data : RowHoldsItem(rows[i], data[i])
       ELSE /\ Len(rows) = 1
            /\ rows[1].config_json.kind = "json"
            /\ rows[1].config_json.val = data

EachUsersRowsAreOwnLastSave ==
    secrets = "ok" =>
        \A u \in Users, key \in Keys : saved[u][key].set => RowsHoldSave(key, u)

\* In a step, at most one user's rows change in each worksheet.
OtherUsersRowsKept ==
    \A key \in Keys :
        \E u \in Savers :
            \A other \in Users \ {u} : RowsOfUser(key, other)' = RowsOfUser(key, other)

\* Each completed save records its user: that user's rows change to the data.
SaverIsTheOneChanged ==
    \A key \in Keys, u \in Users :
        RowsOfUser(key, u)' # RowsOfUser(key, u) => saved'[u][key].set

\* C1: on the spreadsheet, a completed save_data_to_cloud call by one user
\* leaves every other user's rows in the worksheet as they were, and after
\* any sequence of saves each user's rows are those of the user's own last
\* save.
C1_SavesKeepOtherUsersRows ==
    /\ [](EachUsersRowsAreOwnLastSave)
    /\ [][OtherUsersRowsKept /\ SaverIsTheOneChanged]_vars

\* A and B have both saved all three keys, and C's old rows are still there.
C1_Witness ==
    /\ secrets = "ok"
    /\ \A key \in Keys : saved["A"][key].set /\ saved["B"][key].set
    /\ Len(saved["A"].shopping.val) = 2 /\ Len(saved["B"].shopping.val) = 1
    /\ RowsOfUser("hydration", "C") = <<[username |-> "C", config_json |-> json_dumps(OldHydration)]>>
    /\ Len(RowsOfUser("shopping", "C")) = 2
    /\ Len(RowsOfUser("cheats", "C")) = 1

\* The config payloads a user has in a worksheet.
StoredConfigs(key, u) ==
    {RowsOfUser(key, u)[i].config_json.val :
        i \in {j \in DOMAIN RowsOfUser(key, u) : RowsOfUser(key, u)[j].config_json.kind = "json"}}

\* A loaded shopping item is one of the user's stored rows.
IsStoredItemOf(x, u) ==
    /\ x.username = u
    /\ \E i \in DOMAIN DataRows("shopping") :
          LET r == DataRows("shopping")[i]
          IN /\ r.username = u /\ r.item = x.item /\ r.qty = x.qty
             /\ r.category = x.category /\ r.price_min = x.price_min
             /\ r.price_max = x.price_max /\ (r.bought = "TRUE") = x.bought

\* C9: fetch_user_data returns, for every username and store state, a record
\* of three parts and never an error; each part is the user's stored data or
\* the default, and the shopping part holds rows of the requested user only.
C9_FetchNeverFails ==
    ret.done =>
        LET r == ret.value
            u == ret.user
        IN /\ ~r.exc
           /\ DOMAIN r.val = {"hydration", "shopping", "cheats"}
           /\ \/ r.val.hydration = DefaultHydration
              \/ secrets = "ok" /\ r.val.hydration \in StoredConfigs("hydration", u)
           /\ \/ r.val.cheats = DefaultCheats
              \/ secrets = "ok" /\ r.val.cheats \in StoredConfigs("cheats", u)
           /\ \/ r.val.shopping = <<>>
              \/ /\ secrets = "ok"
                 /\ \A i \in DOMAIN r.val.shopping : IsStoredItemOf(r.val.shopping[i], u)

\* B's config_json is unparsable and C has shopping rows: B gets the default
\* hydration part and B's own shopping rows only.
C9_Witness ==
    /\ ret.done /\ ret.user = "B" /\ secrets = "ok"
    /\ \E i \in DOMAIN DataRows("hydration") :
          /\ DataRows("hydration")[i].username = "B"
          /\ DataRows("hydration")[i].config_json.kind = "garbage"
    /\ ret.value.val.hydration = DefaultHydration
    /\ Len(RowsOfUser("shopping", "C")) = 2
    /\ Len(ret.value.val.shopping) = 1
    /\ ret.value.val.cheats # DefaultCheats

\* The persisted fields of a loaded item equal those of the saved one.
SameItem(loaded, x) ==
    /\ loaded.item = x.item /\ loaded.qty = x.qty /\ loaded.category = x.category
    /\ loaded.price_min = x.price_min /\ loaded.price_max = x.price_max
    /\ loaded.bought = x.bought

\* The same, prices compared as safe_float keeps them.
SameItemKeptPrices(loaded, x) ==
    /\ loaded.item = x.item /\ loaded.qty = x.qty /\ loaded.category = x.category
    /\ loaded.price_min = KeptPrice(x.price_min)
    /\ loaded.price_max = KeptPrice(x.price_max)
    /\ loaded.bought = x.bought

LoadedNow(u) == fetch_user_data(u, NoFaults).val

RoundTrip(u, Same(_, _)) ==
    /\ saved[u].hydration.set => LoadedNow(u).hydration = saved[u].hydration.val
    /\ saved[u].cheats.set => LoadedNow(u).cheats = saved[u].cheats.val
    /\ saved[u].shopping.set =>
          /\ Len(LoadedNow(u).shopping) = Len(saved[u].shopping.val)
          /\ \A i \in DOMAIN saved[u].shopping.val :
                Same(LoadedNow(u).shopping[i], saved[u].shopping.val[i])

\* C10 as stated: whichever store get_db_connection returns, a load after a
\* save yields the saved record in all persisted fields.
C10_AsStated == \A u \in Users : RoundTrip(u, SameItem)

\* C10, amended: on the spreadsheet, a load after a save yields the saved
\* record in all persisted fields, a price that is no number read back as 0.
C10_RoundTripOnSpreadsheet ==
    secrets = "ok" => \A u \in Users : RoundTrip(u, SameItemKeptPrices)

\* A has saved all three parts, B and C hold rows too, and A's load returned them.
C10_Witness ==
    /\ secrets = "ok"
    /\ ret.done /\ ret.user = "A"
    /\ \A key \in Keys : saved["A"][key].set
    /\ saved["A"].shopping.val = <<ItemRice, ItemChicken>>
    /\ saved["B"].shopping.set /\ saved["B"].shopping.val # <<>>
    /\ ret.value.val = LoadedNow("A")
    /\ ret.value.val.hydration = saved["A"].hydration.val
    /\ Len(ret.value.val.shopping) = 2


\* --------------------------------------------------------------- SpecConc
\* Two browser sessions, each a Streamlit script thread, run
\* save_data_to_cloud against the same spreadsheet; every gspread call is one
\* step.
MaxRounds == 1      \* saves each session starts

UserOf(s) == IF s = "s1" THEN "A" ELSE "B"

InitConc ==
    /\ secrets = "ok"
    /\ ws = RowsOfC
    /\ saved = NothingSaved
    /\ pcs = NoCalls
    /\ sess = LoggedOut /\ view = NoView /\ ev = NoEvent
    /\ arg = NoStreakArg
    /\ ret = NoRet

\* save_data_to_cloud(key, new_data, username) is entered.
CallSave(s, key, new_data) ==
    /\ pcs[s].pc \in {"idle", "done"}
    /\ pcs[s].rounds < MaxRounds
    /\ pcs' = [pcs EXCEPT ![s] = [pc |-> "read", key |-> key, final |-> <<>>,
                                  data |-> new_data, rounds |-> @.rounds + 1,
                                  warned |-> FALSE]]
    /\ UNCHANGED <<secrets, ws, saved, arg, ret, appVars>>

\* ws.get_all_records() and the rows to write, built from what was read.
ReadAll(s) ==
    /\ pcs[s].pc = "read"
    /\ LET key == pcs[s].key
           final == FinalRows(key, pcs[s].data, UserOf(s),
                              get_all_records(get_db_connection, ws[SheetName(key)]))
       IN pcs' = [pcs EXCEPT ![s] =
                    IF final.exc THEN [@ EXCEPT !.pc = "done", !.warned = TRUE]
                    ELSE [@ EXCEPT !.pc = "clear", !.final = final.val]]
    /\ UNCHANGED <<secrets, ws, saved, arg, ret, appVars>>

\* ws.clear()
Clear(s) ==
    /\ pcs[s].pc = "clear"
    /\ ws' = [ws EXCEPT ![SheetName(pcs[s].key)] = ws_clear(get_db_connection, @)]
    /\ pcs' = [pcs EXCEPT ![s].pc = "header"]
    /\ UNCHANGED <<secrets, saved, arg, ret, appVars>>

\* ws.append_row([...column names...])
AppendHeader(s) ==
    /\ pcs[s].pc = "header"
    /\ ws' = [ws EXCEPT ![SheetName(pcs[s].key)] =
                ws_append_row(get_db_connection, @, HeaderOf(pcs[s].key))]
    /\ pcs' = [pcs EXCEPT ![s].pc = "rows"]
    /\ UNCHANGED <<secrets, saved, arg, ret, appVars>>

\* ws.append_rows(final_data); the call returns.
AppendRows(s) ==
    /\ pcs[s].pc = "rows"
    /\ ws' = [ws EXCEPT ![SheetName(pcs[s].key)] =
                IF pcs[s].key = "shopping" /\ pcs[s].final = <<>> THEN @
                ELSE ws_append_rows(get_db_connection, @, pcs[s].final)]
    /\ saved' = [saved EXCEPT ![UserOf(s)][pcs[s].key] = [set |-> TRUE, val |-> pcs[s].data]]
    /\ pcs' = [pcs EXCEPT ![s].pc = "done"]
    /\ UNCHANGED <<secrets, arg, ret, appVars>>

\* The gspread call the session is about to make raises (APIError, a lost
\* connection): the except clause shows the warning and the call returns.
ApiError(s) ==
    /\ pcs[s].pc \in {"read", "clear", "header", "rows"}
    /\ pcs' = [pcs EXCEPT ![s] = [@ EXCEPT !.pc = "done", !.warned = TRUE]]
    /\ UNCHANGED <<secrets, ws, saved, arg, ret, appVars>>

NextConc ==
    \E s \in Sessions :
        \/ \E key \in Keys : \E d \in DataChoices(key) : CallSave(s, key, d)
        \/ ReadAll(s)
        \/ Clear(s)
        \/ AppendHeader(s)
        \/ AppendRows(s)
        \/ ApiError(s)

SpecConc == InitConc /\ [][NextConc]_vars

\* C2: when two sessions with different usernames each run
\* save_data_to_cloud on the same worksheet and their steps interleave, the
\* final worksheet contains both users' saved data and the unchanged rows of
\* every third user.
C2_ConcurrentSavesIndependent ==
    (/\ \A s \in Sessions : pcs[s].pc = "done" /\ ~pcs[s].warned
     /\ pcs["s1"].key = pcs["s2"].key) =>
        LET key == pcs["s1"].key
        IN /\ RowsHoldSave(key, "A")
           /\ RowsHoldSave(key, "B")
           /\ RowsOfUser(key, "C") = SelectSeq(Tail(RowsOfC[SheetName(key)]),
                                               LAMBDA r : r.username = "C")


\* C16: when a save_data_to_cloud call has failed at any of its steps and shown
\* its warning, and no other session has saved, the worksheet still holds every
\* other user's rows as they were before the call.
C16_FailedSaveKeepsOthersRows ==
    \A s \in Sessions :
        (/\ pcs[s].pc = "done" /\ pcs[s].warned
         /\ \A t \in Sessions \ {s} : pcs[t].pc = "idle") =>
            RowsOfUser(pcs[s].key, "C") =
                SelectSeq(Tail(RowsOfC[SheetName(pcs[s].key)]), LAMBDA r : r.username = "C")

\* ------------------------------------------------------------------ Spec
\* One browser session: every action is one button press and the script runs
\* it causes, st.rerun() included.
Logins == {"A", "C"}

\* C's hydration record with an amount that is no number and a date that
\* strptime rejects among its entries.
MalformedHydration ==
    [OldHydration EXCEPT
        !.logs = <<Entry(2, 3, 2000, "none"), Entry(2, 12, 1000, "amount"),
                   Entry(2, 12, 1000, "date")>>]

RowsOfCMalformed ==
    [RowsOfC EXCEPT !["Hydration"] =
        <<HeaderOf("hydration"),
          [username |-> "C", config_json |-> json_dumps(MalformedHydration)]>>]

InitApp ==
    /\ secrets \in {"ok", "missing"}
    /\ ws \in (IF secrets = "ok" THEN {RowsOfC, RowsOfCMalformed} ELSE {EmptySpreadsheet})
    /\ saved = NothingSaved
    /\ pcs = NoCalls
    /\ sess = LoggedOut /\ view = NoView /\ ev = NoEvent
    /\ arg = NoStreakArg
    /\ ret = NoRet

\* The main app runs its tabs: a user is logged in and app_data is a record.
AppRuns == sess.current_user # "" /\ sess.app.state = "loaded"

Event(op) == [NoEvent EXCEPT !.op = op]

\* save_data_to_cloud called by a handler: the worksheet and the history.
HandlerSave(key, new_data, fault) ==
    LET out == save_data_to_cloud(key, new_data, sess.current_user, fault)
    IN /\ ws' = [ws EXCEPT ![SheetName(key)] = out.rows]
       /\ saved' = IF out.warned THEN saved
                   ELSE [saved EXCEPT ![sess.current_user][key] =
                            [set |-> TRUE, val |-> new_data]]

\* "Start Cooking": current_user is set, the rerun enters the main app, which
\* loads app_data only when session_state has no such key.
Login(username, faults) ==
    /\ sess.current_user = ""
    /\ sess' = [sess EXCEPT
                  !.current_user = username,
                  !.app = IF sess.app.state = "absent"
                          THEN [state |-> "loaded",
                                data |-> fetch_user_data(username, faults).val,
                                owner |-> username]
                          ELSE @]
    /\ ev' = Event("login")
    /\ view' = NoView
    /\ ret' = NoRet
    /\ UNCHANGED <<storeVars, arg>>

\* for l in logs: try: strptime(...); keep l when its effective date is
\* eff_today; except: pass
CycleLogs(hydro, now) ==
    SelectSeq(hydro.logs,
              LAMBDA l : /\ l.bad # "date"
                         /\ get_effective_date([day |-> l.date, hour |-> l.time],
                                               hydro.start_hour)
                               = get_effective_date(now, hydro.start_hour))

\* sum of safe_float(l['amount'])
RECURSIVE SumSafe(_)
SumSafe(entries) ==
    IF entries = <<>> THEN 0
    ELSE safe_float(Head(entries).amount) + SumSafe(Tail(entries))

\* sum([l['amount'] for l in ...]): TypeError when an amount is not a number
RECURSIVE SumRaw(_)
SumRaw(entries) ==
    IF entries = <<>> THEN Ok(0)
    ELSE LET rest == SumRaw(Tail(entries))
         IN IF ~Head(entries).amount.num \/ rest.exc THEN Raise(0)
            ELSE Ok(Head(entries).amount.v + rest.val)

NoFuel == [morn |-> 0, aft |-> 0, eve |-> 0]

\* The Fuel tab down to its three metrics: the cycle's entries summed by
\* the hour of their time.
FuelTab(hydro, now) ==
    LET cyc == CycleLogs(hydro, now)
        morn == SumRaw(SelectSeq(cyc, LAMBDA l : l.time < 12))
        aft == SumRaw(SelectSeq(cyc, LAMBDA l : 12 <= l.time /\ l.time < 17))
        eve == SumRaw(SelectSeq(cyc, LAMBDA l : l.time >= 17))
    IN IF morn.exc \/ aft.exc \/ eve.exc THEN Raise(NoFuel)
       ELSE Ok([morn |-> morn.val, aft |-> aft.val, eve |-> eve.val])

NoDashboard == [streak |-> 0, total_today |-> 0, left |-> 0]

\* The Dashboard tab down to its metrics: streak, today's total, the cheats
\* left.  An exception leaving calculate_streak ends the run.
DashboardTab(data, now) ==
    LET hydro == data.hydration
        streak == calculate_streak(hydro.logs, hydro.daily_goal, hydro.start_hour, now)
    IN IF streak.exc THEN Raise(NoDashboard)
       ELSE Ok([streak |-> streak.val,
                total_today |-> SumSafe(CycleLogs(hydro, now)),
                left |-> data.cheats.weekly_limit - data.cheats.used_this_week])

\* st.progress(used/limit if limit > 0 else 0) accepts a float in [0.0, 1.0]
\* only and raises StreamlitAPIException otherwise.
CheatsTabRaises(c_data) ==
    c_data.weekly_limit > 0 /\ c_data.used_this_week > c_data.weekly_limit

\* A run of the Dashboard tab with no button pressed.  With app_data None the
\* subscript app_data['hydration'] raises TypeError.
ShowDashboard(now) ==
    /\ sess.current_user # ""
    /\ LET r == IF sess.app.state = "loaded" THEN DashboardTab(sess.app.data, now)
                ELSE Raise(NoDashboard)
       IN /\ ret' = [done |-> TRUE, value |-> r.val]
          /\ ev' = [Event("dashboard") EXCEPT
                      !.now = now,
                      !.raised = IF sess.app.state # "loaded" THEN "TypeError"
                                 ELSE IF r.exc THEN "OverflowError" ELSE ""]
    /\ view' = NoView
    /\ UNCHANGED <<sess, storeVars, arg>>

\* Dashboard "Log Out", the last widget of the tab
Logout(now) ==
    /\ AppRuns
    /\ ~DashboardTab(sess.app.data, now).exc
    /\ sess' = [sess EXCEPT !.current_user = "", !.app = NoAppData("none")]
    /\ ev' = [Event("logout") EXCEPT !.now = now]
    /\ view' = NoView
    /\ ret' = NoRet
    /\ UNCHANGED <<storeVars, arg>>

\* A run of the Fuel tab with no button pressed
ShowFuel(now) ==
    /\ AppRuns
    /\ LET r == FuelTab(sess.app.data.hydration, now)
       IN /\ ret' = [done |-> TRUE, value |-> r.val]
          /\ ev' = [Event("fuel") EXCEPT !.now = now,
                                         !.raised = IF r.exc THEN "TypeError" ELSE ""]
    /\ view' = NoView
    /\ UNCHANGED <<sess, storeVars, arg>>

\* Fuel tab "Save Calibration"; the expander comes before the metrics.
SaveCalibration(w, a, new_goal, start_h, fault) ==
    /\ AppRuns
    /\ LET h_data == [sess.app.data.hydration EXCEPT
                        !.weight = w, !.activity = a, !.daily_goal = new_goal,
                        !.start_hour = start_h]
       IN /\ sess' = [sess EXCEPT !.app.data.hydration = h_data]
          /\ HandlerSave("hydration", h_data, fault)
    /\ ev' = Event("save_calibration")
    /\ view' = NoView
    /\ ret' = NoRet
    /\ UNCHANGED <<secrets, pcs, arg>>

\* Fuel tab "+{val}ml", reached once the metrics are drawn: building the entry
\* evaluates today_str, a name the script never binds, so NameError ends the
\* run before logs.append and before save_data_to_cloud.
QuickLog(val, now, fault) ==
    /\ AppRuns
    /\ ev' = [Event("quick_log") EXCEPT
                !.val = val, !.now = now,
                !.raised = IF FuelTab(sess.app.data.hydration, now).exc
                           THEN "TypeError" ELSE "NameError"]
    /\ view' = NoView
    /\ ret' = NoRet
    /\ UNCHANGED <<sess, storeVars, arg>>

\* A run of the Cheat Negotiator tab with no button pressed
ShowCheats ==
    /\ AppRuns
    /\ ret' = [done |-> TRUE, value |-> sess.app.data.cheats]
    /\ ev' = [Event("cheats") EXCEPT
                !.raised = IF CheatsTabRaises(sess.app.data.cheats)
                           THEN "StreamlitAPIException" ELSE ""]
    /\ view' = NoView
    /\ UNCHANGED <<sess, storeVars, arg>>

\* "Judge Me": the reply is kept in the session's 'judge' key.
JudgeMe ==
    /\ AppRuns
    /\ ~CheatsTabRaises(sess.app.data.cheats)
    /\ sess' = [sess EXCEPT !.judge = TRUE]
    /\ ev' = Event("judge")
    /\ view' = NoView
    /\ ret' = NoRet
    /\ UNCHANGED <<storeVars, arg>>

\* "I ate it", shown under a verdict
IAteIt(fault) ==
    /\ AppRuns
    /\ ~CheatsTabRaises(sess.app.data.cheats)
    /\ sess.judge
    /\ LET c_data == [sess.app.data.cheats EXCEPT !.used_this_week = @ + 1]
       IN /\ sess' = [sess EXCEPT !.app.data.cheats = c_data]
          /\ HandlerSave("cheats", c_data, fault)
    /\ ev' = Event("ate_it")
    /\ view' = NoView
    /\ ret' = NoRet
    /\ UNCHANGED <<secrets, pcs, arg>>

chip_vals == {150, 250, 350, 500}
GoalInputs == {0, 2000, 3000}
StartHourInputs == {0, 6}
AppNows == {[day |-> d, hour |-> h] : d \in 2..3, h \in Hours}

NextApp ==
    \/ \E u \in Logins, faults \in FaultSets : Login(u, faults)
    \/ \E now \in AppNows : Logout(now)
    \/ \E g \in GoalInputs, h \in StartHourInputs :
          SaveCalibration(sess.app.data.hydration.weight, "Moderate", g, h, "ok")
    \/ \E val \in chip_vals, now \in AppNows : QuickLog(val, now, "ok")
    \/ \E now \in AppNows : ShowDashboard(now)
    \/ \E now \in AppNows : ShowFuel(now)
    \/ ShowCheats
    \/ JudgeMe
    \/ IAteIt("ok")

Spec == InitApp /\ [][NextApp]_vars

Logs == sess.app.data.hydration.logs

\* C3: pressing a quick-log button appends exactly one entry carrying that
\* amount to the user's hydration log, leaves the earlier entries unchanged,
\* and saves the hydration record.
C3_QuickLogAppendsAndSaves ==
    [][ev'.op = "quick_log" =>
          /\ Len(Logs') = Len(Logs) + 1
          /\ SubSeq(Logs', 1, Len(Logs)) = Logs
          /\ Logs'[Len(Logs')].amount = Num(ev'.val)
          /\ secrets = "ok" =>
                \E i \in DOMAIN DataRows("hydration")' :
                    /\ DataRows("hydration")'[i].username = sess.current_user
                    /\ DataRows("hydration")'[i].config_json.val.logs = Logs']_vars


Hydro == sess.app.data.hydration
Cheats == sess.app.data.cheats

\* the total of the well-formed entries of the logical day of the last run
TotalOfWellFormed ==
    LET day == IF ev.now.hour >= Hydro.start_hour THEN ev.now.day ELSE ev.now.day - 1
        counted == SelectSeq(Hydro.logs,
                      LAMBDA l : /\ l.bad = "none"
                                 /\ (IF l.time >= Hydro.start_hour THEN l.date
                                     ELSE l.date - 1) = day)
    IN SumSafe(counted)

\* C12: with a goal above 0, a run of the Dashboard or of the Fuel tab never
\* fails on a log that holds malformed entries: today's total on the Dashboard
\* and the three segment totals on the Fuel tab are computed from the
\* well-formed entries of the current logical day.
C12_CalculationsTolerateMalformed ==
    (ev.op \in {"dashboard", "fuel"} /\ AppRuns /\ Hydro.daily_goal > 0) =>
        /\ ev.raised = ""
        /\ ev.op = "dashboard" => ret.value.total_today = TotalOfWellFormed
        /\ ev.op = "fuel" =>
              ret.value.morn + ret.value.aft + ret.value.eve = TotalOfWellFormed

\* C13: the Cheat Negotiator tab offers logging at every count, also past the
\* limit; "I ate it" raises used_this_week by exactly 1 and leaves weekly_limit;
\* no other handler changes either, so used_this_week never decreases; the
\* Dashboard shows weekly_limit - used_this_week, negative when over budget.
C13_CheatCounterOnlyGrows ==
    [][/\ ev'.op = "cheats" => ev'.raised = ""
       /\ ev'.op = "ate_it" =>
             Cheats' = [Cheats EXCEPT !.used_this_week = @ + 1]
       /\ ev'.op \notin {"ate_it", "login", "logout"} => Cheats' = Cheats
       /\ (ev'.op = "dashboard" /\ ev'.raised = "") =>
             ret'.value.left = Cheats.weekly_limit - Cheats.used_this_week]_vars

\* C14: whenever a user is logged in, app_data is a record, and it is the one
\* fetched for that user.
C14_AppDataIsCurrentUsers ==
    sess.current_user # "" =>
        /\ sess.app.state = "loaded"
        /\ sess.app.owner = sess.current_user

\* C15: the streak shown on the Dashboard is computed for every goal that Save
\* Calibration can store, 0 included: the backward walk of calculate_streak
\* ends at a day below the goal and no exception leaves it.
C15_StreakWalkEnds ==
    (ev.op = "dashboard" /\ AppRuns) => ev.raised # "OverflowError"

\* -------------------------------------------------------------- SpecPlan
\* The Plan tab of one logged-in session.

\* str.lower() on the letters the model's names are written with
UpperToLower == [C |-> "c", H |-> "h", B |-> "b", R |-> "r"]
lower(t) == [i \in DOMAIN t |->
                IF t[i] \in DOMAIN UpperToLower THEN UpperToLower[t[i]] ELSE t[i]]

\* Python's  sub in text  on strings
Contains(sub, text) ==
    \E k \in 0..(Len(text) - Len(sub)) : SubSeq(text, k + 1, k + Len(sub)) = sub

Digits == <<"0", "1", "2", "3", "4", "5", "6", "7", "8", "9">>
IsDigit(c) == \E i \in DOMAIN Digits : Digits[i] = c
DigitVal(c) == (CHOOSE i \in DOMAIN Digits : Digits[i] = c) - 1

\* the end of the run of digits that starts at position i
RECURSIVE RunEnd(_, _)
RunEnd(t, i) == IF i < Len(t) /\ IsDigit(t[i + 1]) THEN RunEnd(t, i + 1) ELSE i

\* the integer written by the digits t[i..j]
RECURSIVE DigitsValue(_, _, _)
DigitsValue(t, i, j) ==
    IF j < i THEN 0 ELSE DigitsValue(t, i, j - 1) * 10 + DigitVal(t[j])

RECURSIVE Pow10(_)
Pow10(n) == IF n = 0 THEN 1 ELSE 10 * Pow10(n - 1)

\* safe_parse_qty: float() of the first match of (\d+(\.\d+)?), 1.0 without a
\* match.  The value is the fraction n / d.
safe_parse_qty(qty_str) ==
    LET starts == {i \in DOMAIN qty_str : IsDigit(qty_str[i])}
    IN IF starts = {} THEN [n |-> 1, d |-> 1]
       ELSE LET a == CHOOSE i \in starts : \A j \in starts : i <= j
                e == RunEnd(qty_str, a)
                frac == /\ e + 2 <= Len(qty_str)
                        /\ qty_str[e + 1] = "."
                        /\ IsDigit(qty_str[e + 2])
                f == IF frac THEN RunEnd(qty_str, e + 2) ELSE e
            IN [n |-> DigitsValue(qty_str, a, e) * Pow10(f - e - (IF frac THEN 1 ELSE 0))
                        + (IF frac THEN DigitsValue(qty_str, e + 2, f) ELSE 0),
                d |-> Pow10(f - e - (IF frac THEN 1 ELSE 0))]

\* est_total also over the bought items
RECURSIVE est_total_x2_all(_)
est_total_x2_all(shop_list) ==
    IF shop_list = <<>> THEN 0
    ELSE safe_float(Head(shop_list).price_min) + safe_float(Head(shop_list).price_max)
         + est_total_x2_all(Tail(shop_list))

\* est_total of the Plan tab, doubled so that it stays an integer:
\* sum([(safe_float(min) + safe_float(max)) / 2 for x in shop_list if not x['bought']])
RECURSIVE est_total_x2(_)
est_total_x2(shop_list) ==
    IF shop_list = <<>> THEN 0
    ELSE (IF Head(shop_list).bought THEN 0
          ELSE safe_float(Head(shop_list).price_min)
               + safe_float(Head(shop_list).price_max))
         + est_total_x2(Tail(shop_list))

\* What a script run of the Plan tab shows: the metric is int(est_total).
Render(shop_list) ==
    [shown |-> TRUE, est_total_x2 |-> est_total_x2(shop_list),
     metric |-> est_total_x2(shop_list) \div 2, rendered |-> shop_list]

ShopList == sess.app.data.shopping

\* the loop body matching in both directions
ApplySuggestionEitherWay(x, u) ==
    IF "item" \notin DOMAIN u THEN Raise(x)
    ELSE IF ~(\/ Contains(lower(x.item), lower(u.item))
              \/ Contains(lower(u.item), lower(x.item))) THEN Ok(x)
    ELSE IF "category" \notin DOMAIN u THEN Raise(x)
    ELSE LET x1 == [x EXCEPT !.category = u.category]
         IN IF "price_min" \notin DOMAIN u THEN Raise(x1)
            ELSE LET x2 == [x1 EXCEPT !.price_min = u.price_min]
                 IN IF "price_max" \notin DOMAIN u THEN Raise(x2)
                    ELSE Ok([x2 EXCEPT !.price_max = u.price_max])

\* One pass of the inner loop body for item x and suggestion u.  A missing key
\* raises KeyError where the code subscripts it; the assignments made before
\* stay.
ApplySuggestion(x, u) ==
    IF "item" \notin DOMAIN u THEN Raise(x)
    ELSE IF ~Contains(lower(x.item), lower(u.item)) THEN Ok(x)
    ELSE IF "category" \notin DOMAIN u THEN Raise(x)
    ELSE LET x1 == [x EXCEPT !.category = u.category]
         IN IF "price_min" \notin DOMAIN u THEN Raise(x1)
            ELSE LET x2 == [x1 EXCEPT !.price_min = u.price_min]
                 IN IF "price_max" \notin DOMAIN u THEN Raise(x2)
                    ELSE Ok([x2 EXCEPT !.price_max = u.price_max])

\* for u in updates: for x in shop_list: ...   from suggestion j, item i on;
\* the list is changed in place, so what was assigned before an exception stays.
RECURSIVE MergeLoop(_, _, _, _)
MergeLoop(shop_list, updates, j, i) ==
    IF j > Len(updates) THEN Ok(shop_list)
    ELSE IF i > Len(shop_list) THEN MergeLoop(shop_list, updates, j + 1, 1)
    ELSE LET r == ApplySuggestion(shop_list[i], updates[j])
             l == [shop_list EXCEPT ![i] = r.val]
         IN IF r.exc THEN Raise(l) ELSE MergeLoop(l, updates, j, i + 1)

\* json.loads(clean_json_response(res)): the list the reply holds, or an
\* exception when the reply is not JSON.
Unparseable == Raise(<<>>)

\* "Analyze & Price (AI)" in a verified session.  The run first renders the
\* tab from the list as it is; only a merge that ends without an exception
\* saves and reruns.
Analyze(reply, fault) ==
    /\ AppRuns
    /\ LET r == IF reply.exc THEN Raise(ShopList)
                ELSE MergeLoop(ShopList, reply.val, 1, 1)
       IN /\ sess' = [sess EXCEPT !.app.data.shopping = r.val]
          /\ IF r.exc
             THEN /\ view' = Render(ShopList)
                  /\ UNCHANGED <<ws, saved>>
             ELSE /\ view' = Render(r.val)
                  /\ HandlerSave("shopping", r.val, fault)
          /\ ev' = [Event("analyze") EXCEPT
                       !.updates = reply.val,
                       !.raised = IF r.exc THEN "Exception" ELSE ""]
    /\ UNCHANGED <<secrets, pcs, arg, ret>>

\* "Add" with a non-empty item name
AddItem(new_item, new_qty_num, new_unit, fault) ==
    /\ AppRuns
    /\ new_item # <<>>
    /\ LET final_qty_str == new_qty_num \o <<" ">> \o new_unit
           l == Append(ShopList, Item(new_item, final_qty_str, "General",
                                      Num(0), Num(0), FALSE))
       IN /\ sess' = [sess EXCEPT !.app.data.shopping = l]
          /\ HandlerSave("shopping", l, fault)
          /\ view' = Render(l)
    /\ ev' = Event("add")
    /\ UNCHANGED <<secrets, pcs, arg, ret>>

categories == {"Protein", "Veg", "Dairy", "Grain", "Staple", "Junk", "General"}

\* The checkbox of the i-th item, which the view shows for unbought items of
\* the listed categories.
ToggleBought(i, fault) ==
    /\ AppRuns
    /\ i \in DOMAIN ShopList
    /\ ~ShopList[i].bought
    /\ CategoryOf(ShopList[i]) \in categories
    /\ LET l == [ShopList EXCEPT ![i].bought = TRUE]
       IN /\ sess' = [sess EXCEPT !.app.data.shopping = l]
          /\ HandlerSave("shopping", l, fault)
          /\ view' = Render(l)
    /\ ev' = Event("bought")
    /\ UNCHANGED <<secrets, pcs, arg, ret>>

\* A script run of the Plan tab with no button pressed
ShowPlan ==
    /\ AppRuns
    /\ view' = Render(ShopList)
    /\ ev' = Event("show")
    /\ UNCHANGED <<sess, storeVars, arg, ret>>

MaxItems == 2
MaxUpdates == 2

NameCh == <<"c", "h">>
NameChb == <<"c", "h", "b">>
ItemNames == {NameCh, NameChb}
QtyInputs == {<<"2", ".", "5">>}
UnitInputs == {<<"k", "g">>}

SuggestCh == [item |-> <<"C", "h">>, category |-> "Protein",
              price_min |-> Num(10), price_max |-> Num(20)]
SuggestChb == [item |-> <<"C", "h", "b">>, category |-> "Dairy",
               price_min |-> Num(200), price_max |-> Num(250)]
SuggestNoItem == [category |-> "Veg", price_min |-> Num(1), price_max |-> Num(2)]
SuggestNoPriceMax == [item |-> <<"C", "h", "b">>, category |-> "Veg", price_min |-> Num(1)]
Suggestions == {SuggestCh, SuggestChb, SuggestNoItem, SuggestNoPriceMax}

WellFormed(u) == {"item", "category", "price_min", "price_max"} \subseteq DOMAIN u

AiReplies ==
    {Unparseable} \cup
    {Ok(l) : l \in UNION {[1..n -> Suggestions] : n \in 0..MaxUpdates}}

\* The session state after "Start Cooking" by username
LoggedIn(username) ==
    [current_user |-> username,
     app |-> [state |-> "loaded", data |-> fetch_user_data(username, NoFaults).val,
              owner |-> username],
     judge |-> FALSE]

InitPlan ==
    /\ secrets = "ok"
    /\ ws = RowsOfC
    /\ saved = NothingSaved
    /\ pcs = NoCalls
    /\ sess \in {LoggedIn(u) : u \in Logins}
    /\ view = NoView /\ ev = NoEvent
    /\ arg = NoStreakArg
    /\ ret = NoRet

\* Item names are the keys of the checkboxes, so the names a user adds are
\* ones the list does not hold yet.
NextPlan ==
    \/ \E reply \in AiReplies : Analyze(reply, "ok")
    \/ \E n \in ItemNames, q \in QtyInputs, un \in UnitInputs :
          /\ Len(ShopList) < MaxItems
          /\ \A i \in DOMAIN ShopList : ShopList[i].item # n
          /\ AddItem(n, q, un, "ok")
    \/ \E i \in 1..MaxItems : ToggleBought(i, "ok")
    \/ ShowPlan

SpecPlan == InitPlan /\ [][NextPlan]_vars

\* ------------------------------------------------ the Plan tab, as specified
Unbought(l) == {i \in DOMAIN l : ~l[i].bought}

PriceValue(p) == IF p.num THEN p.v ELSE 0

\* twice the mean of an item's two prices
PriceSum(x) == PriceValue(x.price_min) + PriceValue(x.price_max)

\* ten times an item's mean price times the magnitude of its qty, for
\* magnitudes with at most one decimal
PriceSumTimesQty(x) ==
    LET q == safe_parse_qty(x.qty) IN PriceSum(x) * ((q.n * 10) \div q.d)

RECURSIVE SumOver(_, _, _)
SumOver(l, S, timesQty) ==
    IF S = {} THEN 0
    ELSE LET i == CHOOSE k \in S : TRUE
         IN (IF timesQty THEN PriceSumTimesQty(l[i]) ELSE PriceSum(l[i]))
            + SumOver(l, S \ {i}, timesQty)

\* C6 as stated: the value shown is the sum over the unbought items of the mean
\* price multiplied by the magnitude parsed from qty.
C6_AsStated ==
    view.shown =>
        view.est_total_x2 * 10 = SumOver(view.rendered, Unbought(view.rendered), TRUE)

\* C6: the estimated cart value the Plan tab shows is the whole part of the sum,
\* over the unbought items of the list, of the mean of price_min and price_max;
\* a non-numeric price counts as 0 and qty does not enter.
C6_CartValueIsSumOfMeanPrices ==
    view.shown =>
        /\ view.est_total_x2 = SumOver(view.rendered, Unbought(view.rendered), FALSE)
        /\ view.metric * 2 \in {view.est_total_x2, view.est_total_x2 - 1}

C6_Witness ==
    /\ view.shown
    /\ view.metric = 15
    /\ \E i \in DOMAIN view.rendered :
          /\ ~view.rendered[i].bought
          /\ view.rendered[i].price_min = Num(10) /\ view.rendered[i].price_max = Num(20)
          /\ safe_parse_qty(view.rendered[i].qty) = [n |-> 2, d |-> 1]
    /\ \E i \in DOMAIN view.rendered : view.rendered[i].bought

\* The merge ran to its end: the reply was a list and no subscript raised.
Merged == ev.op = "analyze" /\ ev.raised = ""

AllWellFormed(updates) == \A j \in DOMAIN updates : WellFormed(updates[j])

\* the suggestions whose name contains the item's name, letter case aside
MatchesOf(x, updates) ==
    {j \in DOMAIN updates : /\ "item" \in DOMAIN updates[j]
                            /\ Contains(lower(x.item), lower(updates[j].item))}

\* the suggestions whose name contains the item's name or is contained in it
MatchesEitherWay(x, updates) ==
    {j \in DOMAIN updates : \/ Contains(lower(x.item), lower(updates[j].item))
                            \/ Contains(lower(updates[j].item), lower(x.item))}

Overwritten(x, u) ==
    [x EXCEPT !.category = u.category, !.price_min = u.price_min,
              !.price_max = u.price_max]

Last(S) == CHOOSE j \in S : \A k \in S : k <= j

ListSaved ==
    /\ saved[sess.current_user]["shopping"] = [set |-> TRUE, val |-> ShopList]
    /\ RowsHoldSave("shopping", sess.current_user)

\* C7 as stated: after a merge of well-formed suggestions every item matching a
\* suggestion in either direction carries a matching suggestion's values, and
\* items matching none are unchanged.
C7_AsStated ==
    [][(Merged' /\ AllWellFormed(ev'.updates)) =>
          /\ Len(ShopList') = Len(ShopList)
          /\ \A i \in DOMAIN ShopList :
                LET m == MatchesEitherWay(ShopList[i], ev'.updates)
                IN IF m = {} THEN ShopList'[i] = ShopList[i]
                   ELSE \E j \in m : ShopList'[i] = Overwritten(ShopList[i], ev'.updates[j])]_vars

\* C7: a merge that runs to its end overwrites category, price_min and price_max
\* of every item, bought or not, whose name is contained, letter case aside, in
\* a suggestion's name, with the values of the last such suggestion; the other
\* items and the other fields are unchanged, and the list is saved.
C7_MergeOverwritesItemsNamedInSuggestion ==
    [][Merged' =>
          /\ Len(ShopList') = Len(ShopList)
          /\ \A i \in DOMAIN ShopList :
                LET m == MatchesOf(ShopList[i], ev'.updates)
                IN ShopList'[i] = IF m = {} THEN ShopList[i]
                                  ELSE Overwritten(ShopList[i], ev'.updates[Last(m)])
          /\ ListSaved']_vars

C7_Witness ==
    /\ Merged
    /\ ev.updates = <<SuggestChb, SuggestCh>>
    /\ \E i, k \in DOMAIN ShopList :
          /\ ShopList[i].item = NameCh /\ ShopList[i].category = "Protein"
          /\ ShopList[i].price_min = Num(10) /\ ShopList[i].price_max = Num(20)
          /\ ShopList[k].item = NameChb /\ ShopList[k].category = "Dairy"
          /\ ShopList[k].price_min = Num(200) /\ ShopList[k].price_max = Num(250)

\* C8: a merge whose reply holds a malformed suggestion still applies every
\* well-formed suggestion of the reply, as if the malformed ones were absent,
\* and saves the resulting list.
C8_MalformedSuggestionSkipped ==
    [][(ev'.op = "analyze" /\ \E j \in DOMAIN ev'.updates : ~WellFormed(ev'.updates[j])) =>
          /\ ShopList' = MergeLoop(ShopList, SelectSeq(ev'.updates, WellFormed), 1, 1).val
          /\ ListSaved']_vars


\* ------------------------------------------------ the ledger, as specified
\* LogicalDay(T, H): date(T) if hour(T) >= H, else the day before.
LogicalDay(day, hour, H) == IF hour >= H THEN day ELSE day - 1

RECURSIVE SumAmounts(_)
SumAmounts(entries) ==
    IF entries = <<>> THEN 0
    ELSE (IF Head(entries).amount.num THEN Head(entries).amount.v ELSE 0)
         + SumAmounts(Tail(entries))

OnLogicalDay(logs, day, H) ==
    SelectSeq(logs, LAMBDA e : e.bad # "date" /\ LogicalDay(e.date, e.time, H) = day)

\* totalForLogicalDay(day, dayStartHour)
TotalForLogicalDay(logs, day, H) == SumAmounts(OnLogicalDay(logs, day, H))

ArgToday == LogicalDay(arg.now.day, arg.now.hour, arg.start_hour)
ArgMeets(day) == TotalForLogicalDay(arg.logs, day, arg.start_hour) >= arg.goal

\* The number of consecutive goal-met days that end the day before `today`.
MetDaysBefore(today) ==
    CHOOSE k \in 0..Len(arg.logs) :
        /\ \A j \in 1..k : ArgMeets(today - j)
        /\ ~ArgMeets(today - k - 1)

\* C4: for every log, goal > 0, start hour and current time, calculate_streak
\* returns the number of consecutive logical days that meet the goal, counted
\* backward from the day before the current logical day up to the first day
\* below the goal, plus 1 if the current logical day already meets the goal;
\* an empty log gives 0.
C4_StreakCountsBackward ==
    ret.done =>
        ret.value = IF arg.logs = <<>> THEN 0
                    ELSE MetDaysBefore(ArgToday) + (IF ArgMeets(ArgToday) THEN 1 ELSE 0)

\* A streak of two past days plus the current day, which already meets the goal.
C4_Witness ==
    /\ ret.done
    /\ arg.goal > 0
    /\ MetDaysBefore(ArgToday) = 2
    /\ ArgMeets(ArgToday)
    /\ ret.value = 3

\* Three consecutive logical days from `first` on meet a goal of 2000, the next
\* day is below it, and the log holds nothing else.
ThreeDaysThenBreak(first) ==
    /\ arg.goal = 2000
    /\ arg.logs # <<>>
    /\ \A i \in 1..Len(arg.logs) :
          /\ arg.logs[i].bad = "none"
          /\ LogicalDay(arg.logs[i].date, arg.logs[i].time, arg.start_hour)
                \in first..(first + 3)
    /\ \A j \in 0..2 : ArgMeets(first + j)
    /\ ~ArgMeets(first + 3)

Firsts == 0..NumDays

\* C5 as stated: in that log the streak is 3 on the day after the below-goal
\* day and 0 two days after it.
C5_AsStated ==
    \A first \in Firsts :
        (ret.done /\ ThreeDaysThenBreak(first)) =>
            /\ ArgToday = first + 4 => ret.value = 3
            /\ ArgToday = first + 5 => ret.value = 0

\* C5, amended: the streak is 3 while the below-goal day is the current logical
\* day, and 0 from the day after it on.
C5_StreakThreeThenZero ==
    \A first \in Firsts :
        (ret.done /\ ThreeDaysThenBreak(first)) =>
            /\ ArgToday = first + 3 => ret.value = 3
            /\ ArgToday \in {first + 4, first + 5} => ret.value = 0

C5_Witness ==
    \E first \in Firsts :
        /\ ret.done
        /\ ThreeDaysThenBreak(first)
        /\ ArgToday = first + 3
        /\ ret.value = 3

====
